---- MODULE Spec2Model ----
(***************************************************************************)
(* nexusStream: the secure session protocol of the P2P call component.     *)
(*                                                                         *)
(* Two components (peers "A" and "B") run src/components/P2PCall.tsx and   *)
(* talk over PeerJS data connections.  Every `await` of the source is a    *)
(* point where another callback may run, so every asynchronous function is *)
(* split at its awaits: the part before an await is one action, and the    *)
(* continuation is kept as a record in tasks[p] until a later action       *)
(* resumes it.  Cryptography is symbolic: keys are names, a signature is   *)
(* the triple (tag, signer, data), ECDH is the unordered pair of the two   *)
(* ephemeral keys and SHA-256 is an injective constructor.                 *)
(*                                                                         *)
(* The identity store, getOrCreateIdentity of                              *)
(* src/services/secureProtocolService.ts, is modelled the same way: each   *)
(* call is split at its awaits and works on the two localStorage entries.  *)
(***************************************************************************)
EXTENDS Integers, Sequences, FiniteSets, Bags, TLC

\* ------------------------------------------------------------------ bounds
MaxConns == 2      \* data connections opened over the life of the components
MaxRot == 2        \* rotation ticks that pass the open-check
MaxAdv == 2        \* messages the network adversary rewrites
MaxClock == 1      \* milliseconds the clock advances
MaxCalls == 3      \* calls of getOrCreateIdentity on one storage

MaxFp == 3        \* identity fingerprints range over 0..MaxFp
MaxExtra == 1     \* bytes a digest buffer holds beyond the eight that are read
\* --------------------------------------------------------------- constants
Peers == {"A", "B"}
Caller == "A"
Callee == "B"
Other(p) == IF p = "A" THEN "B" ELSE "A"
Conns == 1..MaxConns

\* the long-term identity each component loaded in initSystem
IdentityOf(p) == IF p = "A" THEN "IA" ELSE "IB"
AdvIdentity == "IM"
AdvEphemeral == <<"M", 1>>
NoKey == <<"none", 0>>

\* ------------------------------------------------------ symbolic WebCrypto
\* crypto.subtle.exportKey('jwk', key)
ExportJwk(k) == <<"jwk", k>>
\* faulty variant: importKey accepts whatever it is given
ImportsAnything(j) == TRUE
\* crypto.subtle.importKey('jwk', jwk, ...) succeeds only on a well-formed JWK
ImportOk(j) == j[1] = "jwk"
ImportKey(j) == j[2]
\* JSON.stringify(jwk) followed by TextEncoder.encode
JsonStringify(j) == <<"json", j>>
\* crypto.subtle.sign with the private half of identity id
SignEcdsa(id, data) == <<"sig", id, data>>
\* crypto.subtle.verify against the public key idPub
VerifyEcdsa(idPub, sig, data) == sig = <<"sig", idPub, data>>
\* faulty variant: the shared bits depend on the local pair only
LocalOnlyBits(localEph, remoteEph) == {localEph}
\* crypto.subtle.deriveBits: ECDH is symmetric in the two key pairs
DeriveBits(localEph, remoteEph) == {localEph, remoteEph}

arrayBufferToBase64(buf) == <<"b64", buf>>
Base64Ok(s) == s[1] = "b64"
base64ToArrayBuffer(s) == s[2]

\* SHA-256 of the SPKI export, first 16 hex characters, as a number whose
\* order is the lexicographic order of the hex strings
computeKeyFingerprint(k) ==
  CASE k = "IA" -> 2
    [] k = "IB" -> 1
    [] k = "IM" -> 3
    [] k = "I1" -> 4
    [] k = "I2" -> 5
    [] k = "I3" -> 6
    [] k = "I4" -> 7
    [] k = "I5" -> 8
    [] OTHER -> 0

\* faulty variant: the two fingerprints are joined in local, remote order
Unsorted(x, y) == <<x, y>>

\* [localIdFps, remoteIdFps].sort()
SortIds(x, y) == IF x <= y THEN <<x, y>> ELSE <<y, x>>

\* formatFingerprint(SHA-256(`${sortedIds}:${secretString}`)), kept symbolic
SafetyNumber(localFp, remoteFp, secret) ==
  <<"safety", SortIds(localFp, remoteFp), arrayBufferToBase64(secret)>>
NoFingerprint == <<"none", <<0, 0>>, arrayBufferToBase64({})>>

\* ---------------------------------------------------------------- messages
NoMsg ==
  [type |-> "NONE", identityPublicKey |-> <<"none", "">>,
   ephemeralPublicKey |-> <<"none", NoKey>>,
   signature |-> <<"none", <<"sig", "", JsonStringify(<<"none", NoKey>>)>>>>,
   timestamp |-> 0]

StatusMsg == [NoMsg EXCEPT !.type = "STATUS"]

HandshakeTypes ==
  {"SECURE_HANDSHAKE_INIT", "SECURE_HANDSHAKE_RESP", "SECURE_KEY_ROTATION"}

createHandshakePayload(id, eph, type, ts) ==
  [type |-> type,
   identityPublicKey |-> ExportJwk(id),
   ephemeralPublicKey |-> ExportJwk(eph),
   signature |-> arrayBufferToBase64(SignEcdsa(id, JsonStringify(ExportJwk(eph)))),
   timestamp |-> ts]

NullResult ==
  [ok |-> FALSE, sessionFingerprint |-> NoFingerprint,
   remoteIdentityFingerprint |-> 0]

\* faulty variant: the signer is checked, the signed data is not
SignerOnly(payload) ==
  base64ToArrayBuffer(payload.signature)[2] = ImportKey(payload.identityPublicKey)

\* the signature check of verifyAndDeriveSession (isValid)
SignatureValid(payload) ==
  VerifyEcdsa(ImportKey(payload.identityPublicKey),
              base64ToArrayBuffer(payload.signature),
              JsonStringify(payload.ephemeralPublicKey))

\* faulty variant: the fingerprint covers only what the payload carries
PayloadOnlyFingerprint(localId, localEph, payload) ==
  SafetyNumber(computeKeyFingerprint(ImportKey(payload.identityPublicKey)),
               computeKeyFingerprint(ImportKey(payload.identityPublicKey)),
               {ImportKey(payload.ephemeralPublicKey)})

\* the session fingerprint of verifyAndDeriveSession, steps 3 and 4
SessionFingerprint(localId, localEph, payload) ==
  SafetyNumber(computeKeyFingerprint(localId),
               computeKeyFingerprint(ImportKey(payload.identityPublicKey)),
               DeriveBits(localEph, ImportKey(payload.ephemeralPublicKey)))

\* faulty variant: a payload whose type is SECURE_KEY_ROTATION is refused
verifyAndDeriveSessionNoRotation(localId, localEph, payload) ==
  IF ~ImportOk(payload.identityPublicKey)
       \/ ~ImportOk(payload.ephemeralPublicKey)
       \/ ~Base64Ok(payload.signature)
       \/ payload.type = "SECURE_KEY_ROTATION"
  THEN NullResult
  ELSE IF ~SignatureValid(payload)
  THEN NullResult
  ELSE [ok |-> TRUE,
        sessionFingerprint |-> SessionFingerprint(localId, localEph, payload),
        remoteIdentityFingerprint |->
          computeKeyFingerprint(ImportKey(payload.identityPublicKey))]

\* ok = FALSE stands for the null result (invalid signature or any throw)
verifyAndDeriveSession(localId, localEph, payload) ==
  IF ~ImportOk(payload.identityPublicKey)
       \/ ~ImportOk(payload.ephemeralPublicKey)
       \/ ~Base64Ok(payload.signature)
  THEN NullResult
  ELSE IF ~SignatureValid(payload)
  THEN NullResult
  ELSE [ok |-> TRUE,
        sessionFingerprint |-> SessionFingerprint(localId, localEph, payload),
        remoteIdentityFingerprint |->
          computeKeyFingerprint(ImportKey(payload.identityPublicKey))]

\* ------------------------------------------------------------------- state
VARIABLES
  status,              \* status[p]: 'idle' | 'connected'
  securityContext,     \* securityContext[p]: React state, isNull = null
  error,               \* error[p]: "" or the security alert
  currentDataConn,     \* currentDataConn[p]: connection id, 0 = null
  ephemeralKeysRef,    \* ephemeralKeysRef[p].current, NoKey = null
  rotationIntervalRef, \* rotationIntervalRef[p].current, 0 = null
  activeTimers,        \* activeTimers[p]: intervals not yet cleared
  tasks,               \* tasks[p]: bag of suspended async continuations
  connState,           \* connState[c][p]: none | created | open | closed
  ephKeys,             \* ephKeys[c][p]: the const ephKeys of p's handlers on c
  net,                 \* net[c][p]: messages in flight to p on c
  connCount,           \* connections created so far
  keyCount,            \* keyCount[p]: ephemeral pairs p has generated
  callState,           \* callState[c][p]: the media call made with connection c
  currentCall,         \* currentCall[p]: media call id, 0 = null
  now,                 \* Date.now()
  rotCount,            \* rotation ticks that passed the open-check
  advCount,            \* messages rewritten by the adversary
  ctxConn,             \* history: connection whose message gave securityContext[p]
  endedAt,             \* history: newest connection known to p when handleEndCall last ran
  ctxFrom,             \* history: type of the message that gave securityContext[p]
                       \* and the local pair its derivation used
  rejected,            \* history: rejected[p], the message p's handler rejected last
  localStorage,        \* localStorage[name]: the two identity entries of the browser
  idCall,              \* idCall[i]: the i-th call of getOrCreateIdentity
  idKeyCount,          \* identity key pairs generateKey has made
  idWrites,            \* history: idWrites[i][name], setItem calls of call i
  fnArgs,              \* arguments of the pure function under evaluation
  fnResult             \* what it returned, <<>> before the call

compVars == <<status, securityContext, error, currentDataConn, currentCall,
              ephemeralKeysRef, rotationIntervalRef, activeTimers, tasks>>
netVars == <<connState, ephKeys, net, connCount, callState>>
envVars == <<keyCount, now, rotCount, advCount>>
histVars == <<ctxConn, endedAt, ctxFrom, rejected>>
idVars == <<localStorage, idCall, idKeyCount, idWrites>>
sessionVars == <<compVars, netVars, envVars, histVars>>
fnVars == <<fnArgs, fnResult>>
vars == <<sessionVars, idVars, fnVars>>

NullContext ==
  [isNull |-> TRUE, isVerified |-> FALSE, safetyFingerprint |-> NoFingerprint,
   remoteIdentityFingerprint |-> 0, lastRotation |-> 0]

SecurityAlert == "SECURITY ALERT: Verification Failed."

Task(kind, c, m, k) == [kind |-> kind, conn |-> c, msg |-> m, eph |-> k]
TasksOf(p) == BagToSet(tasks[p])
AddTask(p, t) == [tasks EXCEPT ![p] = @ (+) SetToBag({t})]
DropTask(p, t) == [tasks EXCEPT ![p] = @ (-) SetToBag({t})]
SwapTask(p, t, u) == [tasks EXCEPT ![p] = (@ (-) SetToBag({t})) (+) SetToBag({u})]

InitSession ==
  /\ status = [p \in Peers |-> "idle"]
  /\ securityContext = [p \in Peers |-> NullContext]
  /\ error = [p \in Peers |-> ""]
  /\ currentDataConn = [p \in Peers |-> 0]
  /\ ephemeralKeysRef = [p \in Peers |-> NoKey]
  /\ rotationIntervalRef = [p \in Peers |-> 0]
  /\ activeTimers = [p \in Peers |-> {}]
  /\ tasks = [p \in Peers |-> EmptyBag]
  /\ connState = [c \in Conns |-> [p \in Peers |-> "none"]]
  /\ ephKeys = [c \in Conns |-> [p \in Peers |-> NoKey]]
  /\ net = [c \in Conns |-> [p \in Peers |-> <<>>]]
  /\ connCount = 0
  /\ keyCount = [p \in Peers |-> 0]
  /\ callState = [c \in Conns |-> [p \in Peers |-> "none"]]
  /\ currentCall = [p \in Peers |-> 0]
  /\ now = 0
  /\ rotCount = 0
  /\ advCount = 0
  /\ ctxConn = [p \in Peers |-> 0]
  /\ endedAt = [p \in Peers |-> 0]
  /\ ctxFrom = [p \in Peers |-> [type |-> "NONE", eph |-> NoKey]]
  /\ rejected = [p \in Peers |-> NoMsg]

\* ---------------------------------------------------------- identity store
STORAGE_KEY_PUB == "nexus_identity_pub_v1"
STORAGE_KEY_PRIV == "nexus_identity_priv_v1"
StorageKeys == {STORAGE_KEY_PUB, STORAGE_KEY_PRIV}
Calls == 1..MaxCalls

\* the names of the identity key pairs generateKey makes, in order
IdentityKeys == <<"I1", "I2", "I3", "I4", "I5">>

\* a JWK of one half of an identity key pair; what getItem returns for a
\* missing entry; strings that are not the JSON of a key
JwkOf(half, k) == <<"jwk", half, k>>
NoJwk == <<"none", "none", "">>
NoEntry == <<"null", NoJwk>>
EmptyString == <<"empty", NoJwk>>
Garbled == <<"garbled", NoJwk>>
NotAKey == JsonStringify(<<"object", "none", "">>)

\* `storedPub && storedPriv`: null and the empty string are falsy
Truthy(s) == s[1] \notin {"null", "empty"}
\* JSON.parse throws on anything that is not JSON text
JsonParseOk(s) == s[1] = "json"
JsonParse(s) == s[2]
\* importKey('jwk', jwk, ECDSA, true, [usage]): the public half imports for
\* 'verify', the private half for 'sign'
ImportIdentityOk(j, half) == ImportOk(j) /\ j[2] = half

NoIdentity ==
  [pc |-> "idle", storedPub |-> NoEntry, storedPriv |-> NoEntry,
   publicKey |-> "", privateKey |-> "", publicKeyFingerprint |-> 0,
   generated |-> FALSE]

\* the contents the two entries may have before the first call
StoredEntries(half) ==
  {NoEntry, EmptyString, Garbled, NotAKey,
   JsonStringify(JwkOf(half, IdentityKeys[1]))}

InitStore(pub, priv) ==
  /\ localStorage = [n \in StorageKeys |-> IF n = STORAGE_KEY_PUB THEN pub ELSE priv]
  /\ idCall = [i \in Calls |-> NoIdentity]
  /\ idKeyCount = 1
  /\ idWrites = [i \in Calls |-> [n \in StorageKeys |-> 0]]

NoArgs == <<>>

InitFn(args) ==
  /\ fnArgs = args
  /\ fnResult = <<>>

Init ==
  /\ InitSession
  /\ InitStore(NoEntry, NoEntry)
  /\ InitFn(NoArgs)

\* the storage of an installation nobody but getOrCreateIdentity has written:
\* empty, or the two halves of the pair an earlier page load generated
InitIdentityStored ==
  /\ InitSession
  /\ \/ InitStore(NoEntry, NoEntry)
     \/ InitStore(JsonStringify(JwkOf("public", IdentityKeys[1])),
                  JsonStringify(JwkOf("private", IdentityKeys[1])))
  /\ InitFn(NoArgs)

InitIdentity ==
  /\ InitSession
  /\ \E pub \in StoredEntries("public"), priv \in StoredEntries("private") :
       InitStore(pub, priv)
  /\ InitFn(NoArgs)

\* ------------------------------------------------------------------ helpers
\* faulty variant: the messages are handed over whatever the state of the
\* sender's side
SendAllUnguarded(c, from, msgs) == [net EXCEPT ![c][Other(from)] = @ \o msgs]

\* conn.send(m) for each m of msgs, called by peer `from`: PeerJS transmits
\* only while the sender's side is open
SendAll(c, from, msgs) ==
  IF connState[c][from] = "open"
  THEN [net EXCEPT ![c][Other(from)] = @ \o msgs]
  ELSE net

\* faulty variant: conn.close() is not called
NotClosed(cs, c, p) == cs

\* conn.close() called by p, applied to the connection table cs
CloseSide(cs, c, p) ==
  IF c = 0 THEN cs ELSE [cs EXCEPT ![c][p] = IF @ = "none" THEN @ ELSE "closed"]

\* faulty variant: the interval the effect starts is not stored in
\* rotationIntervalRef
RotationEffectNotStored(p, timers) ==
  LET changed == <<status'[p], securityContext'[p].isVerified, currentDataConn'[p]>>
                   # <<status[p], securityContext[p].isVerified, currentDataConn[p]>>
      cond == /\ status'[p] = "connected"
              /\ securityContext'[p].isVerified
              /\ currentDataConn'[p] # 0
              /\ connState'[currentDataConn'[p]][p] = "open"
      cleared == timers \ {rotationIntervalRef[p]}
  IN /\ rotationIntervalRef' = rotationIntervalRef
     /\ activeTimers' = [activeTimers EXCEPT ![p] =
          IF ~changed THEN timers
          ELSE IF cond THEN cleared \cup {currentDataConn'[p]}
          ELSE cleared]

\* the key-rotation effect: React re-runs it (cleanup, then body) after a
\* handler that changed one of its dependencies
\*   [status, securityContext?.isVerified, currentDataConn, identity];
\* timers is the set of active intervals left by the handler itself
RotationEffect(p, timers) ==
  LET changed == <<status'[p], securityContext'[p].isVerified, currentDataConn'[p]>>
                   # <<status[p], securityContext[p].isVerified, currentDataConn[p]>>
      cond == /\ status'[p] = "connected"
              /\ securityContext'[p].isVerified
              /\ currentDataConn'[p] # 0
              /\ connState'[currentDataConn'[p]][p] = "open"
      cleared == timers \ {rotationIntervalRef[p]}
  IN IF ~changed
     THEN /\ activeTimers' = [activeTimers EXCEPT ![p] = timers]
          /\ rotationIntervalRef' = rotationIntervalRef
     ELSE IF cond
     THEN /\ activeTimers' = [activeTimers EXCEPT ![p] = cleared \cup {currentDataConn'[p]}]
          /\ rotationIntervalRef' = [rotationIntervalRef EXCEPT ![p] = currentDataConn'[p]]
     ELSE /\ activeTimers' = [activeTimers EXCEPT ![p] = cleared]
          /\ rotationIntervalRef' = rotationIntervalRef

\* the newest connection for which setupSecureDataConnection started at p
LatestConn(p) ==
  LET s == {c \in Conns : connState[c][p] # "none"}
  IN IF s = {} THEN 0 ELSE CHOOSE c \in s : \A d \in s : d <= c

\* ------------------------------------------------------------------ actions
\* initiateCall: handleCallSetup(call), then peer.connect,
\* setupSecureDataConnection (up to its first await) and setCurrentDataConn
initiateCall(p, limit) ==
  /\ status[p] = "idle"
  /\ connCount < limit
  /\ LET c == connCount + 1 IN
       /\ connCount' = c
       /\ callState' = [callState EXCEPT ![c][p] = "active"]
       /\ currentCall' = [currentCall EXCEPT ![p] = c]
       /\ connState' = [connState EXCEPT ![c][p] = "created"]
       /\ currentDataConn' = [currentDataConn EXCEPT ![p] = c]
       /\ tasks' = AddTask(p, Task("setup", c, NoMsg, NoKey))
  /\ status' = [status EXCEPT ![p] = "connected"]
  /\ error' = [error EXCEPT ![p] = ""]
  /\ UNCHANGED <<securityContext, ephemeralKeysRef, ephKeys, net>>
  /\ RotationEffect(p, activeTimers[p])
  /\ UNCHANGED <<envVars, histVars, idVars, fnVars>>

\* peer.on('connection'): setCurrentDataConn(conn) and
\* setupSecureDataConnection(conn, id) up to its first await
onConnection(q) ==
  /\ \E c \in Conns :
       /\ c <= connCount
       /\ connState[c][q] = "none"
       /\ connState[c][Other(q)] = "created"
       /\ connState' = [connState EXCEPT ![c][q] = "created"]
       /\ currentDataConn' = [currentDataConn EXCEPT ![q] = c]
       /\ tasks' = AddTask(q, Task("setup", c, NoMsg, NoKey))
  /\ UNCHANGED <<status, securityContext, error, currentCall, ephemeralKeysRef,
                 ephKeys, net, connCount, callState>>
  /\ RotationEffect(q, activeTimers[q])
  /\ UNCHANGED <<envVars, histVars, idVars, fnVars>>

\* peer.on('call'): answer and handleCallSetup, which sets status 'connected'
onCall(q) ==
  /\ \E c \in Conns :
       /\ callState[c][q] = "none"
       /\ callState[c][Other(q)] = "active"
       /\ callState' = [callState EXCEPT ![c][q] = "active"]
       /\ currentCall' = [currentCall EXCEPT ![q] = c]
  /\ status' = [status EXCEPT ![q] = "connected"]
  /\ UNCHANGED <<securityContext, error, currentDataConn, ephemeralKeysRef, tasks,
                 connState, ephKeys, net, connCount>>
  /\ RotationEffect(q, activeTimers[q])
  /\ UNCHANGED <<envVars, histVars, idVars, fnVars>>

\* setupSecureDataConnection resumes after generateEphemeralKeys: it stores
\* the pair in ephemeralKeysRef and registers the 'open' and 'data' handlers
setupResume(p) ==
  \E t \in TasksOf(p) :
    /\ t.kind = "setup"
    /\ LET k == <<p, keyCount[p] + 1>> IN
         /\ keyCount' = [keyCount EXCEPT ![p] = @ + 1]
         /\ ephemeralKeysRef' = [ephemeralKeysRef EXCEPT ![p] = k]
         /\ ephKeys' = [ephKeys EXCEPT ![t.conn][p] = k]
    /\ tasks' = DropTask(p, t)
    /\ UNCHANGED <<status, securityContext, error, currentDataConn, currentCall,
                   rotationIntervalRef, activeTimers>>
    /\ UNCHANGED <<connState, net, connCount, callState>>
    /\ UNCHANGED <<now, rotCount, advCount, histVars, idVars, fnVars>>

\* conn.on('open') up to its await: the data channel opens at p once both
\* sides exist and p's handlers are registered
onOpen(p) ==
  \E c \in Conns :
    /\ connState[c][p] = "created"
    /\ ephKeys[c][p] # NoKey
    /\ connState[c][Other(p)] \in {"created", "open"}
    /\ connState' = [connState EXCEPT ![c][p] = "open"]
    /\ tasks' = AddTask(p, Task("open", c, NoMsg, ephKeys[c][p]))
    /\ UNCHANGED <<status, securityContext, error, currentDataConn, currentCall,
                   ephemeralKeysRef, rotationIntervalRef, activeTimers>>
    /\ UNCHANGED <<ephKeys, net, connCount, callState>>
    /\ UNCHANGED <<envVars, histVars, idVars, fnVars>>

\* faulty variant: the open handler resumes and sends nothing
openResumeSilent(p) ==
  \E t \in TasksOf(p) :
    /\ t.kind = "open"
    /\ tasks' = DropTask(p, t)
    /\ UNCHANGED <<status, securityContext, error, currentDataConn, currentCall,
                   ephemeralKeysRef, rotationIntervalRef, activeTimers>>
    /\ UNCHANGED netVars
    /\ UNCHANGED <<envVars, histVars, idVars, fnVars>>

\* conn.on('open') resumes with the signed payload: INIT, then STATUS
openResume(p) ==
  \E t \in TasksOf(p) :
    /\ t.kind = "open"
    /\ net' = SendAll(t.conn, p,
                 <<createHandshakePayload(IdentityOf(p), t.eph,
                                          "SECURE_HANDSHAKE_INIT", now),
                   StatusMsg>>)
    /\ tasks' = DropTask(p, t)
    /\ UNCHANGED <<status, securityContext, error, currentDataConn, currentCall,
                   ephemeralKeysRef, rotationIntervalRef, activeTimers>>
    /\ UNCHANGED <<connState, ephKeys, connCount, callState>>
    /\ UNCHANGED <<envVars, histVars, idVars, fnVars>>

\* conn.on('data') up to its await: a handshake message starts
\* verifyAndDeriveSession with the pair ephemeralKeysRef holds right now;
\* a STATUS message only sets remoteStatus
onData(p) ==
  \E c \in Conns :
    /\ connState[c][p] = "open"
    /\ net[c][p] # <<>>
    /\ LET m == Head(net[c][p]) IN
         tasks' = IF m.type \in HandshakeTypes /\ ephemeralKeysRef[p] # NoKey
                  THEN AddTask(p, Task("verify", c, m, ephemeralKeysRef[p]))
                  ELSE tasks
    /\ net' = [net EXCEPT ![c][p] = Tail(@)]
    /\ UNCHANGED <<status, securityContext, error, currentDataConn, currentCall,
                   ephemeralKeysRef, rotationIntervalRef, activeTimers>>
    /\ UNCHANGED <<connState, ephKeys, connCount, callState>>
    /\ UNCHANGED <<envVars, histVars, idVars, fnVars>>

\* faulty variant: lastRotation is left at its initial value
UnstampedContext(result, ts) ==
  [isNull |-> FALSE, isVerified |-> TRUE,
   safetyFingerprint |-> result.sessionFingerprint,
   remoteIdentityFingerprint |-> result.remoteIdentityFingerprint,
   lastRotation |-> 0]

\* the SecurityContext written on a verified message
VerifiedContext(result, ts) ==
  [isNull |-> FALSE, isVerified |-> TRUE,
   safetyFingerprint |-> result.sessionFingerprint,
   remoteIdentityFingerprint |-> result.remoteIdentityFingerprint,
   lastRotation |-> ts]

\* faulty variant: every verified handshake message is answered
AnswersAll(m) == m.type \in HandshakeTypes

\* if (data.type === 'SECURE_HANDSHAKE_INIT'): only an INIT is answered
NeedsResponse(m) == m.type = "SECURE_HANDSHAKE_INIT"

\* conn.on('data') resumes with a result: setSecurityContext and, for an
\* INIT, the call of createHandshakePayload with ephemeralKeysRef.current
dataVerified(p, t) ==
  LET result == verifyAndDeriveSession(IdentityOf(p), t.eph, t.msg) IN
    /\ t.kind = "verify"
    /\ result.ok
    /\ securityContext' = [securityContext EXCEPT ![p] = VerifiedContext(result, now)]
    /\ ctxConn' = [ctxConn EXCEPT ![p] = t.conn]
    /\ ctxFrom' = [ctxFrom EXCEPT ![p] = [type |-> t.msg.type, eph |-> t.eph]]
    /\ tasks' = IF NeedsResponse(t.msg)
                THEN SwapTask(p, t, Task("resp", t.conn, t.msg, ephemeralKeysRef[p]))
                ELSE DropTask(p, t)
    /\ UNCHANGED <<status, error, currentDataConn, currentCall, ephemeralKeysRef>>
    /\ UNCHANGED netVars
    /\ RotationEffect(p, activeTimers[p])
    /\ UNCHANGED <<envVars, endedAt, rejected, idVars, fnVars>>

\* conn.on('data') resumes with null: security alert and conn.close()
dataRejected(p, t) ==
  LET result == verifyAndDeriveSession(IdentityOf(p), t.eph, t.msg) IN
    /\ t.kind = "verify"
    /\ ~result.ok
    /\ error' = [error EXCEPT ![p] = SecurityAlert]
    /\ connState' = CloseSide(connState, t.conn, p)
    /\ net' = [net EXCEPT ![t.conn][p] = <<>>]
    /\ tasks' = DropTask(p, t)
    /\ UNCHANGED <<status, securityContext, currentDataConn, currentCall,
                   ephemeralKeysRef>>
    /\ UNCHANGED <<ephKeys, connCount, callState>>
    /\ RotationEffect(p, activeTimers[p])
    /\ rejected' = [rejected EXCEPT ![p] = t.msg]
    /\ UNCHANGED <<envVars, ctxConn, endedAt, ctxFrom, idVars, fnVars>>

dataResume(p) == \E t \in TasksOf(p) : dataVerified(p, t) \/ dataRejected(p, t)

\* conn.on('data') resumes with the signed RESPONSE: if (conn.open) send
respResume(p, t) ==
  /\ t.kind = "resp"
  /\ net' = SendAll(t.conn, p,
               <<createHandshakePayload(IdentityOf(p), t.eph,
                                        "SECURE_HANDSHAKE_RESP", now)>>)
  /\ tasks' = DropTask(p, t)
  /\ UNCHANGED <<status, securityContext, error, currentDataConn, currentCall,
                 ephemeralKeysRef, rotationIntervalRef, activeTimers>>
  /\ UNCHANGED <<connState, ephKeys, connCount, callState>>
  /\ UNCHANGED <<envVars, histVars, idVars, fnVars>>

sendResponse(p) == \E t \in TasksOf(p) : respResume(p, t)

\* faulty variant: the tick goes on whatever the connection's state
NeverSkips(p, c) == FALSE

\* if (!currentDataConn.open) { console.warn(...); return; }
SkipsRotation(p, c) == connState[c][p] # "open"

\* the interval callback of the timer the effect started for connection c,
\* up to its first await: skip when c is not open, otherwise start
\* generateEphemeralKeys
intervalCallback(p, c) ==
  /\ c \in activeTimers[p]
  /\ \A t \in TasksOf(p) : t.kind \notin {"tickgen", "ticksign"}
  /\ IF SkipsRotation(p, c)
     THEN UNCHANGED <<tasks, rotCount>>
     ELSE /\ rotCount < MaxRot
          /\ rotCount' = rotCount + 1
          /\ tasks' = AddTask(p, Task("tickgen", c, NoMsg, NoKey))
  /\ UNCHANGED <<status, securityContext, error, currentDataConn, currentCall,
                 ephemeralKeysRef, rotationIntervalRef, activeTimers>>
  /\ UNCHANGED netVars
  /\ UNCHANGED <<keyCount, now, advCount, histVars, idVars, fnVars>>

rotationTick(p) == \E c \in Conns : intervalCallback(p, c)

\* the interval callback resumes with newKeys: ephemeralKeysRef.current =
\* newKeys, then createHandshakePayload is started
tickKeysReady(p, t) ==
  /\ t.kind = "tickgen"
  /\ LET k == <<p, keyCount[p] + 1>> IN
       /\ keyCount' = [keyCount EXCEPT ![p] = @ + 1]
       /\ ephemeralKeysRef' = [ephemeralKeysRef EXCEPT ![p] = k]
       /\ tasks' = SwapTask(p, t, Task("ticksign", t.conn, NoMsg, k))
  /\ UNCHANGED <<status, securityContext, error, currentDataConn, currentCall,
                 rotationIntervalRef, activeTimers>>
  /\ UNCHANGED netVars
  /\ UNCHANGED <<now, rotCount, advCount, histVars, idVars, fnVars>>

\* faulty variant: the spread is applied to whatever the state holds
RestampedAlways(prev, ts) == [prev EXCEPT !.isNull = FALSE, !.lastRotation = ts]

\* faulty variant: the new object is built without the spread of prev
RestampedWithoutSpread(prev, ts) ==
  IF prev.isNull THEN prev
  ELSE [NullContext EXCEPT !.isNull = FALSE, !.lastRotation = ts]

\* prev => prev ? ({ ...prev, lastRotation: Date.now() }) : null
Restamped(prev, ts) ==
  IF prev.isNull THEN prev ELSE [prev EXCEPT !.lastRotation = ts]

\* the interval callback resumes with the payload: currentDataConn.send and
\* setSecurityContext(prev => prev ? {...prev, lastRotation} : null)
tickSend(p, t) ==
  /\ t.kind = "ticksign"
  /\ net' = SendAll(t.conn, p,
               <<createHandshakePayload(IdentityOf(p), t.eph,
                                        "SECURE_KEY_ROTATION", now)>>)
  /\ securityContext' = [securityContext EXCEPT ![p] = Restamped(@, now)]
  /\ tasks' = DropTask(p, t)
  /\ UNCHANGED <<status, error, currentDataConn, currentCall, ephemeralKeysRef,
                 rotationIntervalRef, activeTimers>>
  /\ UNCHANGED <<connState, ephKeys, connCount, callState>>
  /\ UNCHANGED <<envVars, histVars, idVars, fnVars>>

rotationResume(p) == \E t \in TasksOf(p) : tickKeysReady(p, t) \/ tickSend(p, t)

\* handleEndCall as the closure of one render runs it: k and c are that
\* render's currentCall and currentDataConn (0 = null), calls the media
\* calls as PeerJS holds them when the closure starts
handleEndCall(p, k, c, calls) ==
  /\ callState' = IF k = 0 THEN calls ELSE [calls EXCEPT ![k][p] = "closed"]
  /\ connState' = CloseSide(connState, c, p)
  /\ net' = IF c = 0 THEN net ELSE [net EXCEPT ![c][p] = <<>>]
  /\ currentCall' = [currentCall EXCEPT ![p] = 0]
  /\ currentDataConn' = [currentDataConn EXCEPT ![p] = 0]
  /\ status' = [status EXCEPT ![p] = "idle"]
  /\ securityContext' = [securityContext EXCEPT ![p] = NullContext]
  /\ ctxConn' = [ctxConn EXCEPT ![p] = 0]
  /\ endedAt' = [endedAt EXCEPT ![p] = LatestConn(p)]
  /\ ctxFrom' = [ctxFrom EXCEPT ![p] = [type |-> "NONE", eph |-> NoKey]]
  /\ UNCHANGED <<error, ephemeralKeysRef, tasks, ephKeys, connCount, rejected>>
  /\ RotationEffect(p, activeTimers[p] \ {rotationIntervalRef[p]})
  /\ UNCHANGED <<envVars, idVars, fnVars>>

\* the hang-up button of the call view: the closure of the current render
hangUp(p) ==
  /\ status[p] = "connected"
  /\ handleEndCall(p, currentCall[p], currentDataConn[p], callState)

\* call.on('close', () => handleEndCall()) after the remote side hung up:
\* the listener was registered by handleCallSetup in a render that had
\* neither the call nor the data connection in its state yet
onCallClose(p) ==
  \E k \in Conns :
    /\ callState[k][p] = "active"
    /\ callState[k][Other(p)] = "closed"
    /\ handleEndCall(p, 0, 0, [callState EXCEPT ![k][p] = "closed"])

\* the remote side has closed the connection: PeerJS marks p's side closed;
\* the component registers no 'close' listener on a data connection
remoteClose(p) ==
  \E c \in Conns :
    /\ connState[c][p] \in {"created", "open"}
    /\ connState[c][Other(p)] = "closed"
    /\ connState' = [connState EXCEPT ![c][p] = "closed"]
    /\ net' = [net EXCEPT ![c][p] = <<>>]
    /\ UNCHANGED compVars
    /\ UNCHANGED <<ephKeys, connCount, callState>>
    /\ UNCHANGED <<envVars, histVars, idVars, fnVars>>

\* faulty variant: a peer still unverified when the clock advances gives up
\* and closes its connection
clockTickWithTimeout ==
  /\ now < MaxClock
  /\ now' = now + 1
  /\ connState' = [c \in Conns |-> [p \in Peers |->
                     IF connState[c][p] = "open" /\ ~securityContext[p].isVerified
                     THEN "closed" ELSE connState[c][p]]]
  /\ UNCHANGED <<compVars, ephKeys, net, connCount, callState, histVars, idVars, fnVars>>
  /\ UNCHANGED <<keyCount, rotCount, advCount>>

\* Date.now() advances between two callbacks
clockTick ==
  /\ now < MaxClock
  /\ now' = now + 1
  /\ UNCHANGED <<compVars, netVars, histVars, idVars, fnVars>>
  /\ UNCHANGED <<keyCount, rotCount, advCount>>

\* the component is unmounted: the cleanup of the init effect destroys the
\* peer, which closes every connection and call of p, and clears the stored
\* interval, as does the cleanup of the rotation effect; no effect runs and
\* no event of the peer is delivered afterwards. status is not read by any
\* render any more and carries the mark of the unmounted component.
Mounted(p) == status[p] # "unmounted"
unmount(p) ==
  /\ Mounted(p)
  /\ status' = [status EXCEPT ![p] = "unmounted"]
  /\ connState' = [c \in Conns |-> CloseSide(connState, c, p)[c]]
  /\ callState' = [c \in Conns |-> CloseSide(callState, c, p)[c]]
  /\ net' = [c \in Conns |-> [net[c] EXCEPT ![p] = <<>>]]
  /\ activeTimers' = [activeTimers EXCEPT ![p] = @ \ {rotationIntervalRef[p]}]
  /\ UNCHANGED <<securityContext, error, currentDataConn, currentCall,
                 ephemeralKeysRef, rotationIntervalRef, tasks>>
  /\ UNCHANGED <<ephKeys, connCount>>
  /\ UNCHANGED <<envVars, histVars, idVars, fnVars>>

\* ----------------------------------------------------- getOrCreateIdentity
\* every action below leaves the secure session untouched
SetCall(i, r) == idCall' = [idCall EXCEPT ![i] = r]

\* the call up to its first await: both getItem reads, the presence test and
\* JSON.parse(storedPub); a throw lands in the catch and generation starts
idStart(i) ==
  /\ idCall[i].pc = "idle"
  /\ LET storedPub == localStorage[STORAGE_KEY_PUB]
         storedPriv == localStorage[STORAGE_KEY_PRIV]
     IN SetCall(i, [idCall[i] EXCEPT
          !.storedPub = storedPub,
          !.storedPriv = storedPriv,
          !.pc = IF Truthy(storedPub) /\ Truthy(storedPriv) /\ JsonParseOk(storedPub)
                 THEN "importPub" ELSE "generateKey"])
  /\ UNCHANGED <<localStorage, idKeyCount, idWrites>>
  /\ UNCHANGED <<sessionVars, fnVars>>

\* importKey of the public half settles; on success JSON.parse(storedPriv)
\* and the second importKey start
idImportPub(i) ==
  /\ idCall[i].pc = "importPub"
  /\ LET jwk == JsonParse(idCall[i].storedPub) IN
       SetCall(i,
         IF ImportIdentityOk(jwk, "public") /\ JsonParseOk(idCall[i].storedPriv)
         THEN [idCall[i] EXCEPT !.publicKey = jwk[3], !.pc = "importPriv"]
         ELSE [idCall[i] EXCEPT !.pc = "generateKey"])
  /\ UNCHANGED <<localStorage, idKeyCount, idWrites>>
  /\ UNCHANGED <<sessionVars, fnVars>>

\* faulty variant: a failed import of the private half goes unnoticed
idImportPrivUnchecked(i) ==
  /\ idCall[i].pc = "importPriv"
  /\ SetCall(i, [idCall[i] EXCEPT
       !.privateKey = JsonParse(idCall[i].storedPriv)[3], !.pc = "fingerprint"])
  /\ UNCHANGED <<localStorage, idKeyCount, idWrites>>
  /\ UNCHANGED <<sessionVars, fnVars>>

\* importKey of the private half settles; on success computeKeyFingerprint
idImportPriv(i) ==
  /\ idCall[i].pc = "importPriv"
  /\ LET jwk == JsonParse(idCall[i].storedPriv) IN
       SetCall(i,
         IF ImportIdentityOk(jwk, "private")
         THEN [idCall[i] EXCEPT !.privateKey = jwk[3], !.pc = "fingerprint"]
         ELSE [idCall[i] EXCEPT !.publicKey = "", !.pc = "generateKey"])
  /\ UNCHANGED <<localStorage, idKeyCount, idWrites>>
  /\ UNCHANGED <<sessionVars, fnVars>>

\* faulty variant: only the public entry is written
PersistedPublicOnly(store, k) ==
  [store EXCEPT ![STORAGE_KEY_PUB] = JsonStringify(JwkOf("public", k))]

\* the two setItem calls
Persisted(store, k) ==
  [store EXCEPT ![STORAGE_KEY_PUB] = JsonStringify(JwkOf("public", k)),
                ![STORAGE_KEY_PRIV] = JsonStringify(JwkOf("private", k))]

\* faulty variant: the loaded identity is saved again before it is returned
idLoadedAndSaved(i) ==
  /\ idCall[i].pc = "fingerprint"
  /\ SetCall(i, [idCall[i] EXCEPT
       !.publicKeyFingerprint = computeKeyFingerprint(idCall[i].publicKey),
       !.pc = "done"])
  /\ localStorage' = Persisted(localStorage, idCall[i].publicKey)
  /\ idWrites' = [idWrites EXCEPT ![i] = [n \in StorageKeys |-> @[n] + 1]]
  /\ UNCHANGED idKeyCount
  /\ UNCHANGED <<sessionVars, fnVars>>

\* return { publicKey, privateKey, publicKeyFingerprint } of the loaded pair
idLoaded(i) ==
  /\ idCall[i].pc = "fingerprint"
  /\ SetCall(i, [idCall[i] EXCEPT
       !.publicKeyFingerprint = computeKeyFingerprint(idCall[i].publicKey),
       !.pc = "done"])
  /\ UNCHANGED <<localStorage, idKeyCount, idWrites>>
  /\ UNCHANGED <<sessionVars, fnVars>>

\* generateKey settles with a new pair; the two exportKey calls follow
idGenerated(i) ==
  /\ idCall[i].pc = "generateKey"
  /\ idKeyCount < Len(IdentityKeys)
  /\ idKeyCount' = idKeyCount + 1
  /\ SetCall(i, [idCall[i] EXCEPT
       !.publicKey = IdentityKeys[idKeyCount + 1],
       !.privateKey = IdentityKeys[idKeyCount + 1],
       !.generated = TRUE,
       !.pc = "exportKey"])
  /\ UNCHANGED <<localStorage, idWrites>>
  /\ UNCHANGED <<sessionVars, fnVars>>

\* both exports have settled: the two setItem calls run back to back, then
\* computeKeyFingerprint starts
idPersist(i) ==
  /\ idCall[i].pc = "exportKey"
  /\ localStorage' = Persisted(localStorage, idCall[i].publicKey)
  /\ idWrites' = [idWrites EXCEPT ![i] = [n \in StorageKeys |-> @[n] + 1]]
  /\ SetCall(i, [idCall[i] EXCEPT !.pc = "fingerprintNew"])
  /\ UNCHANGED idKeyCount
  /\ UNCHANGED <<sessionVars, fnVars>>

\* return of the generated identity
idCreated(i) ==
  /\ idCall[i].pc = "fingerprintNew"
  /\ SetCall(i, [idCall[i] EXCEPT
       !.publicKeyFingerprint = computeKeyFingerprint(idCall[i].publicKey),
       !.pc = "done"])
  /\ UNCHANGED <<localStorage, idKeyCount, idWrites>>
  /\ UNCHANGED <<sessionVars, fnVars>>

\* one step of call i after its start
idStep(i) ==
  \/ idImportPub(i)
  \/ idImportPriv(i)
  \/ idLoaded(i)
  \/ idGenerated(i)
  \/ idPersist(i)
  \/ idCreated(i)

\* --------------------------------------------------------------- adversary
\* what an active man-in-the-middle can put in place of a handshake message
Rewrites(m) ==
  { createHandshakePayload(AdvIdentity, AdvEphemeral, m.type, m.timestamp),
    [m EXCEPT !.ephemeralPublicKey = ExportJwk(AdvEphemeral)],
    [m EXCEPT !.identityPublicKey = ExportJwk(AdvIdentity)],
    [m EXCEPT !.identityPublicKey = <<"bad", @[2]>>],
    [m EXCEPT !.ephemeralPublicKey = <<"bad", @[2]>>],
    [m EXCEPT !.signature = <<"bad", @[2]>>] }

tamper ==
  /\ advCount < MaxAdv
  /\ \E c \in Conns, p \in Peers :
       \E i \in 1..Len(net[c][p]) :
         /\ net[c][p][i].type \in HandshakeTypes
         /\ \E m \in Rewrites(net[c][p][i]) :
              net' = [net EXCEPT ![c][p][i] = m]
  /\ advCount' = advCount + 1
  /\ UNCHANGED compVars
  /\ UNCHANGED <<connState, ephKeys, connCount, callState>>
  /\ UNCHANGED <<keyCount, now, rotCount, histVars, idVars, fnVars>>

\* ---------------------------------------------------------------- transport
\* the transport delivers two messages that are next to each other on their
\* way to p in the opposite order
reorder ==
  /\ \E c \in Conns, p \in Peers :
       \E i \in 1..(Len(net[c][p]) - 1) :
         /\ net[c][p][i] # net[c][p][i + 1]
         /\ net' = [net EXCEPT ![c][p] =
                      [@ EXCEPT ![i] = net[c][p][i + 1], ![i + 1] = net[c][p][i]]]
  /\ UNCHANGED compVars
  /\ UNCHANGED <<connState, ephKeys, connCount, callState>>
  /\ UNCHANGED <<envVars, histVars, idVars, fnVars>>

\* the message that gave p its present SecurityContext, as it was on the wire
LastVerified(p) ==
  {createHandshakePayload(IdentityOf(Other(p)), k, ctxFrom[p].type, now) :
     k \in {e \in base64ToArrayBuffer(securityContext[p].safetyFingerprint[3]) :
              e[1] # p}}

\* a message p has already consumed is delivered to p a second time
replay(p) ==
  /\ advCount < MaxAdv
  /\ securityContext[p].isVerified
  /\ ctxConn[p] # 0
  /\ connState[ctxConn[p]][p] = "open"
  /\ \E m \in LastVerified(p) :
       net' = [net EXCEPT ![ctxConn[p]][p] = Append(@, m)]
  /\ advCount' = advCount + 1
  /\ UNCHANGED compVars
  /\ UNCHANGED <<connState, ephKeys, connCount, callState>>
  /\ UNCHANGED <<keyCount, now, rotCount, histVars, idVars, fnVars>>

\* the transport loses a handshake message on its way to p
lose ==
  /\ \E c \in Conns, p \in Peers :
       \E i \in 1..Len(net[c][p]) :
         /\ net[c][p][i].type \in HandshakeTypes
         /\ net' = [net EXCEPT ![c][p] =
                      SubSeq(@, 1, i - 1) \o SubSeq(@, i + 1, Len(@))]
  /\ UNCHANGED compVars
  /\ UNCHANGED <<connState, ephKeys, connCount, callState>>
  /\ UNCHANGED <<envVars, histVars, idVars, fnVars>>

\* ------------------------------------------------------- function calls
\* inputs of the safety-number derivation: the two identity fingerprints and
\* the shared secret of some pair of ephemeral keys
Fingerprints == 0..MaxFp
EphemeralKeys == {<<"A", 1>>, <<"B", 1>>, <<"A", 2>>}
Secrets == {DeriveBits(k1, k2) : k1, k2 \in EphemeralKeys}

InitSafetyNumber ==
  /\ InitSession
  /\ InitStore(NoEntry, NoEntry)
  /\ \E x, y \in Fingerprints, s \in Secrets : InitFn(<<x, y, s>>)

\* the derivation as each of the two peers runs it: what is local to one is
\* remote to the other
deriveSafetyNumber ==
  /\ fnResult = <<>>
  /\ fnResult' = <<SafetyNumber(fnArgs[1], fnArgs[2], fnArgs[3]),
                   SafetyNumber(fnArgs[2], fnArgs[1], fnArgs[3])>>
  /\ UNCHANGED <<sessionVars, idVars, fnArgs>>

\* faulty variant: the two bytes are read in little-endian order
getUint16LittleEndian(buffer, byteOffset) ==
  buffer[byteOffset + 2] * 256 + buffer[byteOffset + 1]

\* DataView.getUint16(byteOffset): big-endian; byteOffset counts from 0, the
\* byte sequence of the model from 1
getUint16(buffer, byteOffset) ==
  buffer[byteOffset + 1] * 256 + buffer[byteOffset + 2]

\* strings are sequences of one-character strings
DigitChars == <<"0", "1", "2", "3", "4", "5", "6", "7", "8", "9">>

\* Number.prototype.toString(): decimal, no leading zeros
RECURSIVE toString(_)
toString(n) ==
  IF n < 10 THEN <<DigitChars[n + 1]>>
  ELSE Append(toString(n \div 10), DigitChars[(n % 10) + 1])

\* String.prototype.padStart(targetLength, padString), one-character padString
RECURSIVE padStart(_, _, _)
padStart(str, targetLength, padString) ==
  IF Len(str) >= targetLength THEN str
  ELSE padStart(<<padString>> \o str, targetLength, padString)

\* Array.prototype.join(separator)
RECURSIVE join(_, _)
join(blocks, separator) ==
  IF Len(blocks) = 0 THEN <<>>
  ELSE IF Len(blocks) = 1 THEN blocks[1]
  ELSE blocks[1] \o <<separator>> \o join(Tail(blocks), separator)

formatFingerprint(buffer) ==
  join([i \in 1..4 |-> padStart(toString(getUint16(buffer, (i - 1) * 2)), 5, "0")],
       " ")

\* digest buffers: four 16-bit groups, then the bytes that are never read
BytePairs == {<<0, 0>>, <<0, 1>>, <<1, 0>>, <<0, 39>>, <<39, 0>>, <<255, 255>>}
ExtraBytes == {0, 255}
Buffers ==
  {g1 \o g2 \o g3 \o g4 \o rest :
     g1 \in BytePairs, g2 \in BytePairs, g3 \in BytePairs, g4 \in BytePairs,
     rest \in UNION {[1..n -> ExtraBytes] : n \in 0..MaxExtra}}

InitFormat ==
  /\ InitSession
  /\ InitStore(NoEntry, NoEntry)
  /\ \E buffer \in Buffers : InitFn(<<buffer>>)

callFormatFingerprint ==
  /\ fnResult = <<>>
  /\ fnResult' = <<formatFingerprint(fnArgs[1])>>
  /\ UNCHANGED <<sessionVars, idVars, fnArgs>>

\* the payloads verifyAndDeriveSession may be handed: well-formed or not,
\* signed by the identity they name or by another, over the ephemeral key
\* they carry or over another
PayloadIdentities == {"IA", AdvIdentity}
PayloadEphemerals == {<<"A", 1>>, AdvEphemeral}
Timestamps == 0..MaxClock
Payloads ==
  [type : HandshakeTypes,
   identityPublicKey : {ExportJwk(id) : id \in PayloadIdentities}
                         \cup {NoMsg.identityPublicKey},
   ephemeralPublicKey : {ExportJwk(k) : k \in PayloadEphemerals},
   signature : {arrayBufferToBase64(SignEcdsa(id, JsonStringify(ExportJwk(k)))) :
                  id \in PayloadIdentities, k \in PayloadEphemerals}
                 \cup {NoMsg.signature},
   timestamp : Timestamps]

\* a payload, and the type and timestamp of a second payload that agrees
\* with it in the other three fields
InitVerify ==
  /\ InitSession
  /\ InitStore(NoEntry, NoEntry)
  /\ \E localEph \in {<<"B", 1>>, <<"B", 2>>}, payload \in Payloads,
        type \in HandshakeTypes, ts \in Timestamps :
       InitFn(<<"IB", localEph, payload, type, ts>>)

callVerifyAndDeriveSession ==
  /\ fnResult = <<>>
  /\ fnResult' =
       <<verifyAndDeriveSession(fnArgs[1], fnArgs[2], fnArgs[3]),
         verifyAndDeriveSession(fnArgs[1], fnArgs[2],
           [fnArgs[3] EXCEPT !.type = fnArgs[4], !.timestamp = fnArgs[5]])>>
  /\ UNCHANGED <<sessionVars, idVars, fnArgs>>

\* ------------------------------------------------------------------ claims
Verified(p) == securityContext[p].isVerified
Fingerprint(p) == securityContext[p].safetyFingerprint
HandshakeInFlight ==
  \E c \in Conns, p \in Peers :
    /\ connState[c][p] # "closed"
    /\ \E i \in 1..Len(net[c][p]) : net[c][p][i].type \in HandshakeTypes
\* the step resumes (and so removes one copy of) the suspended task t of p
Resumed(p, t) == CopiesIn(t, tasks'[p]) < CopiesIn(t, tasks[p])
\* the messages the step hands to the network on behalf of p, on c
SentOn(p, c) ==
  IF Len(net'[c][Other(p)]) > Len(net[c][Other(p)])
  THEN SubSeq(net'[c][Other(p)], Len(net[c][Other(p)]) + 1, Len(net'[c][Other(p)]))
  ELSE <<>>
SendsNothing(p) == \A c \in Conns : SentOn(p, c) = <<>>

\* C1: once the two INITs and the two RESPONSEs of an undisturbed handshake
\* are processed, both peers are verified and show the same safety number
C1_AllProcessed ==
  \A p \in Peers :
    connState[1][p] = "open" /\ tasks[p] = EmptyBag /\ net[1][p] = <<>>
C1_HandshakeAgrees ==
  C1_AllProcessed =>
    /\ \A p \in Peers : Verified(p)
    /\ Fingerprint("A") = Fingerprint("B")
C1_Witness ==
  /\ C1_AllProcessed
  /\ Verified("A") /\ Verified("B")
  /\ Fingerprint("A") = SafetyNumber(1, 2, {<<"A", 1>>, <<"B", 1>>})
  /\ Fingerprint("B") = Fingerprint("A")

\* C2 (as claimed): whenever both peers are verified and nothing is in flight
\* or mid-execution, their safety numbers are equal, also after rotations
C2_Quiescent ==
  /\ Verified("A") /\ Verified("B")
  /\ ~HandshakeInFlight
  /\ \A p \in Peers : tasks[p] = EmptyBag
C2_FingerprintsAgree == C2_Quiescent => Fingerprint("A") = Fingerprint("B")

\* C3: a payload verifies only if its signature is the one the private key of
\* its identityPublicKey makes over the encoding of its ephemeralPublicKey
Authentic(m) ==
  /\ ImportOk(m.identityPublicKey) /\ ImportOk(m.ephemeralPublicKey)
  /\ m.signature =
       arrayBufferToBase64(SignEcdsa(ImportKey(m.identityPublicKey),
                                     JsonStringify(m.ephemeralPublicKey)))
C3_OnlySignedVerifies ==
  \A p \in Peers : \A t \in TasksOf(p) :
    (t.kind = "verify" /\ verifyAndDeriveSession(IdentityOf(p), t.eph, t.msg).ok)
      => Authentic(t.msg)
C3_Witness ==
  \E p \in Peers : \E t \in TasksOf(p) :
    /\ t.kind = "verify"
    /\ t.msg.identityPublicKey = ExportJwk(IdentityOf(Other(p)))
    /\ t.msg.ephemeralPublicKey = ExportJwk(AdvEphemeral)
    /\ ~verifyAndDeriveSession(IdentityOf(p), t.eph, t.msg).ok

\* C4: two verified peers show the same safety number only if each derived
\* it from the other's own identity and one of the other's own ephemeral
\* keys; a context derived from the adversary's keys never matches the peer's
GenuineSession(p) ==
  /\ securityContext[p].remoteIdentityFingerprint
       = computeKeyFingerprint(IdentityOf(Other(p)))
  /\ \E i \in 1..keyCount[p], j \in 1..keyCount[Other(p)] :
       Fingerprint(p) =
         SafetyNumber(computeKeyFingerprint(IdentityOf(p)),
                      computeKeyFingerprint(IdentityOf(Other(p))),
                      DeriveBits(<<p, i>>, <<Other(p), j>>))
FromAdversary(p) ==
  securityContext[p].remoteIdentityFingerprint = computeKeyFingerprint(AdvIdentity)
C5_RejectionHandled ==
  [][\A p \in Peers : \A t \in TasksOf(p) :
       (/\ t.kind = "verify"
        /\ ~verifyAndDeriveSession(IdentityOf(p), t.eph, t.msg).ok
        /\ Resumed(p, t))
       => /\ connState'[t.conn][p] = "closed"
          /\ error'[p] = SecurityAlert
          /\ securityContext'[p] = securityContext[p]
          /\ SendsNothing(p)]_vars
C5_Witness ==
  \E p \in Peers :
    /\ error[p] = SecurityAlert
    /\ connState[1][p] = "closed"
    /\ securityContext[p].isNull

\* C6 (as claimed): once a handshake message has failed verification, the
\* component does not show a verified context for that connection
C6_RejectionTerminal ==
  \A p \in Peers : error[p] = SecurityAlert => ~Verified(p)

\* C7 (as claimed): after handleEndCall, securityContext stays null until a
\* message on a connection set up after it verifies
C7_NoContextAfterEndCall ==
  \A p \in Peers : ~securityContext[p].isNull => ctxConn[p] > endedAt[p]

\* C8 (as claimed): a rotation tick resumed after its connection was closed
\* neither replaces the held ephemeral pair nor sends a ROTATION
C8_NoRotationAfterClose ==
  [][\A p \in Peers : \A t \in TasksOf(p) :
       (/\ t.kind \in {"tickgen", "ticksign"}
        /\ connState[t.conn][p] = "closed"
        /\ Resumed(p, t))
       => /\ ephemeralKeysRef'[p] = ephemeralKeysRef[p]
          /\ SendsNothing(p)]_vars

\* C9 (as claimed): a verified securityContext always comes from a message
\* received on the newest connection setupSecureDataConnection started for
C9_FreshConnectionUnverified ==
  \A p \in Peers : Verified(p) => ctxConn[p] = LatestConn(p)

\* C10: what the data handler sends.  Only the continuation that holds the
\* signed reply to a verified INIT sends, and what it sends is one RESPONSE;
\* the continuation that receives the verification result sends nothing
IsResponse(m) == m.type = "SECURE_HANDSHAKE_RESP"
ReplyTask(t) ==
  t.kind = "resp" /\ t.msg.type = "SECURE_HANDSHAKE_INIT" /\ Authentic(t.msg)
HandlerSendsOnlyReplies(p) ==
  /\ \A t \in TasksOf(p) :
       (t.kind = "verify" /\ Resumed(p, t)) => SendsNothing(p)
  /\ \A c \in Conns : \A i \in 1..Len(SentOn(p, c)) :
       IsResponse(SentOn(p, c)[i]) =>
         \E t \in TasksOf(p) : ReplyTask(t) /\ t.conn = c /\ Resumed(p, t)
\* C10 (as claimed): exactly one RESPONSE per verified INIT
C10_ExactlyOneResponse ==
  [][\A p \in Peers :
       /\ HandlerSendsOnlyReplies(p)
       /\ \A t \in TasksOf(p) :
            (ReplyTask(t) /\ Resumed(p, t)) =>
              /\ Len(SentOn(p, t.conn)) = 1
              /\ IsResponse(SentOn(p, t.conn)[1])]_vars
\* C10 (amended): one RESPONSE if the connection is open when the signed
\* payload is ready, none otherwise
C10_OneResponseWhileOpen ==
  [][\A p \in Peers :
       /\ HandlerSendsOnlyReplies(p)
       /\ \A t \in TasksOf(p) :
            (ReplyTask(t) /\ Resumed(p, t)) =>
              IF connState[t.conn][p] = "open"
              THEN /\ Len(SentOn(p, t.conn)) = 1
                   /\ IsResponse(SentOn(p, t.conn)[1])
              ELSE SendsNothing(p)]_vars
C10_Witness ==
  \E p \in Peers :
    /\ \E i \in 1..Len(net[1][Other(p)]) : IsResponse(net[1][Other(p)][i])
    /\ Verified(p)
    /\ \A t \in TasksOf(p) : t.kind # "resp"

\* C11: a verified peer that resumes the data handler with the result of a
\* ROTATION carrying an ephemeral key other than the remote key of its current
\* session gets a context made of that result alone, and the new safety
\* number differs from the one shown before
SessionRemoteEph(p) ==
  {k \in base64ToArrayBuffer(Fingerprint(p)[3]) : k[1] # p}
IsRotation(m) == m.type = "SECURE_KEY_ROTATION"
C11_RotationFreshness ==
  [][\A p \in Peers : \A t \in TasksOf(p) :
       LET result == verifyAndDeriveSession(IdentityOf(p), t.eph, t.msg) IN
       (/\ t.kind = "verify" /\ IsRotation(t.msg)
        /\ Verified(p)
        /\ result.ok
        /\ ImportKey(t.msg.ephemeralPublicKey) \notin SessionRemoteEph(p)
        /\ Resumed(p, t))
       => /\ securityContext'[p] =
               [isNull |-> FALSE, isVerified |-> TRUE,
                safetyFingerprint |-> result.sessionFingerprint,
                remoteIdentityFingerprint |-> result.remoteIdentityFingerprint,
                lastRotation |-> now]
          /\ securityContext'[p].safetyFingerprint # Fingerprint(p)]_vars
C11_Witness ==
  /\ Verified("B")
  /\ Fingerprint("B") = SafetyNumber(1, 2, {<<"A", 2>>, <<"B", 1>>})
  /\ tasks["B"] = EmptyBag

\* C12: while the context of a peer stays the context of one connection,
\* every step leaves its lastRotation where it was or moves it forward,
\* whether the step is a verified message or a local rotation tick
C12_LastRotationMonotone ==
  [][\A p \in Peers :
       (/\ ~securityContext[p].isNull /\ ~securityContext'[p].isNull
        /\ ctxConn'[p] = ctxConn[p])
       => securityContext'[p].lastRotation >= securityContext[p].lastRotation]_vars
C12_Witness ==
  /\ Verified("A") /\ tasks["A"] = EmptyBag
  /\ keyCount["A"] = 2
  /\ securityContext["A"].lastRotation = MaxClock
  /\ Verified("B")
  /\ Fingerprint("B") = SafetyNumber(1, 2, {<<"A", 2>>, <<"B", 1>>})
  /\ securityContext["B"].lastRotation = MaxClock

\* C13 (as claimed): from handleEndCall until setupSecureDataConnection runs
\* for a newer connection, ephemeralKeysRef holds no key pair
C13_NoKeysAfterEndCall ==
  \A p \in Peers :
    (endedAt[p] > 0 /\ endedAt[p] = LatestConn(p)) => ephemeralKeysRef[p] = NoKey

\* the guard `if (!ephemeralKeysRef.current) return` of the data handler is
\* never taken: a peer whose handlers are registered on some connection holds
\* an ephemeral pair, because setupSecureDataConnection stores the pair before
\* it registers them and nothing empties the ref afterwards
HandlerHoldsKeys ==
  \A p \in Peers :
    (\E c \in Conns : ephKeys[c][p] # NoKey) => ephemeralKeysRef[p] # NoKey

\* C14 (as claimed): a derivation never uses the local ephemeral pair that
\* an earlier derivation from a RESPONSE or a ROTATION on the same connection
\* used; stated for the derivation that gave the context p holds
C14_NoKeyReuse ==
  [][\A p \in Peers : \A t \in TasksOf(p) :
       (/\ t.kind = "verify"
        /\ verifyAndDeriveSession(IdentityOf(p), t.eph, t.msg).ok
        /\ Resumed(p, t))
       => ~(/\ ctxFrom[p].type \in {"SECURE_HANDSHAKE_RESP", "SECURE_KEY_ROTATION"}
            /\ ctxConn[p] = t.conn
            /\ ctxFrom[p].eph = t.eph)]_vars

\* C16: verifyAndDeriveSession gives the null result, never anything else,
\* for a payload whose identity key, ephemeral key or signature does not
\* decode, and the data handler then does what it does for a bad signature:
\* security alert, conn.close(), no SecurityContext written
Undecodable(m) ==
  \/ m.identityPublicKey[1] # "jwk"
  \/ m.ephemeralPublicKey[1] # "jwk"
  \/ m.signature[1] # "b64"
BadSignature(m) == ~Undecodable(m) /\ ~SignatureValid(m)
RejectedStep(p, t) ==
  /\ error'[p] = SecurityAlert
  /\ connState'[t.conn][p] = "closed"
  /\ securityContext'[p] = securityContext[p]
  /\ ctxConn'[p] = ctxConn[p]
C16_DecodeFailureIsNull ==
  [][\A p \in Peers : \A t \in TasksOf(p) :
       (t.kind = "verify" /\ Resumed(p, t)) =>
         /\ Undecodable(t.msg) =>
              /\ verifyAndDeriveSession(IdentityOf(p), t.eph, t.msg) = NullResult
              /\ RejectedStep(p, t)
         /\ BadSignature(t.msg) => RejectedStep(p, t)]_vars
C16_Witness ==
  \E p \in Peers :
    /\ Undecodable(rejected[p]) /\ rejected[p].type \in HandshakeTypes
    /\ error[p] = SecurityAlert
    /\ connState[1][p] = "closed"
    /\ ~Verified(p)

\* C17: of getOrCreateIdentity calls made one after the other on the same
\* storage, all return the same publicKeyFingerprint and at most the first
\* generates: a later call loads what the earlier one persisted
Returned(i) == idCall[i].pc = "done"
C17_IdentityRoundTrip ==
  \A i, j \in Calls :
    (i # j /\ Returned(i) /\ Returned(j)) =>
      /\ idCall[i].publicKeyFingerprint = idCall[j].publicKeyFingerprint
      /\ ~(idCall[i].generated /\ idCall[j].generated)
C17_Witness ==
  \E i, j \in Calls :
    /\ Returned(i) /\ Returned(j)
    /\ idCall[i].generated /\ ~idCall[j].generated
    /\ idCall[j].publicKey = idCall[i].publicKey
    /\ idCall[j].publicKeyFingerprint = computeKeyFingerprint(IdentityKeys[2])
    /\ idCall[i].publicKeyFingerprint = idCall[j].publicKeyFingerprint

\* C18 (as claimed): also when calls overlap, every caller gets the identity
\* that is persisted, and once both entries hold an identity no step
\* overwrites them
StoredIdentity(store) ==
  /\ JsonParseOk(store[STORAGE_KEY_PUB])
  /\ ImportIdentityOk(JsonParse(store[STORAGE_KEY_PUB]), "public")
  /\ JsonParseOk(store[STORAGE_KEY_PRIV])
  /\ ImportIdentityOk(JsonParse(store[STORAGE_KEY_PRIV]), "private")
C18_SingleIdentity ==
  [][/\ StoredIdentity(localStorage) => localStorage' = localStorage
     /\ \A i \in Calls :
          idCall'[i].pc = "done" =>
            /\ StoredIdentity(localStorage')
            /\ idCall'[i].publicKeyFingerprint =
                 computeKeyFingerprint(JsonParse(localStorage'[STORAGE_KEY_PUB])[3])]_vars

\* C19: a call that returns a loaded identity has written nothing, a call
\* that returns a generated identity has written each of the two entries
\* once, and storage changes only in the persisting step of a generating call
WroteEach(i, k) == \A n \in StorageKeys : idWrites'[i][n] = k
ReadEntries(i) ==
  [n \in StorageKeys |->
     IF n = STORAGE_KEY_PUB THEN idCall[i].storedPub ELSE idCall[i].storedPriv]
Unusable(i) ==
  /\ idCall[i].pc # "idle"
  /\ \/ ~Truthy(idCall[i].storedPub) \/ ~Truthy(idCall[i].storedPriv)
     \/ ~StoredIdentity(ReadEntries(i))
StoredKeysOf(i) ==
  {JsonParse(idCall[i].storedPub)[3], JsonParse(idCall[i].storedPriv)[3]}
C21_Symmetric ==
  fnResult # <<>> => fnResult[1] = fnResult[2]
C21_Witness ==
  /\ fnResult # <<>>
  /\ fnArgs[1] > fnArgs[2]
  /\ fnResult[1] = <<"safety", <<fnArgs[2], fnArgs[1]>>, arrayBufferToBase64(fnArgs[3])>>

\* C22: formatFingerprint returns exactly four groups separated by single
\* spaces, each of exactly five decimal digits that read as the big-endian
\* 16-bit integer made of bytes 2i and 2i+1 of the buffer, zero-padded on the
\* left; the bytes after the first eight have no influence on the result.
DigitValue(ch) == CHOOSE d \in 0..9 : DigitChars[d + 1] = ch
GroupValue(str, i) ==
  LET at(k) == DigitValue(str[(i - 1) * 6 + k])
  IN  at(1) * 10000 + at(2) * 1000 + at(3) * 100 + at(4) * 10 + at(5)
Opened == \E c \in Conns, p \in Peers : connState[c][p] = "open"
StartedReplies(p) ==
  {u \in BagToSet(tasks'[p]) :
     u.kind = "resp" /\ CopiesIn(u, tasks'[p]) > CopiesIn(u, tasks[p])}
C24_ResponseCarriesVerifyingKey ==
  [][\A p \in Peers : \A t \in TasksOf(p) :
       /\ (/\ t.kind = "verify" /\ NeedsResponse(t.msg)
           /\ verifyAndDeriveSession(IdentityOf(p), t.eph, t.msg).ok
           /\ Resumed(p, t))
          => \A u \in StartedReplies(p) : u.eph = t.eph
       /\ (ReplyTask(t) /\ Resumed(p, t))
          => \A i \in 1..Len(SentOn(p, t.conn)) :
               IsResponse(SentOn(p, t.conn)[i]) =>
                 ImportKey(SentOn(p, t.conn)[i].ephemeralPublicKey) = t.eph]_vars

\* C25: the ephemeral pair a message was verified with is still the peer's
\* current pair at the moment the resulting SecurityContext is installed: a
\* rotation tick that replaces the key while the verification is pending
\* never leads to a context derived from the superseded key.
C25_ContextFromCurrentKey ==
  [][\A p \in Peers : \A t \in TasksOf(p) :
       (/\ t.kind = "verify"
        /\ verifyAndDeriveSession(IdentityOf(p), t.eph, t.msg).ok
        /\ Resumed(p, t)
        /\ securityContext'[p].safetyFingerprint =
             SessionFingerprint(IdentityOf(p), t.eph, t.msg))
       => t.eph = ephemeralKeysRef'[p]]_vars

\* C26: the messages of each data connection are verified with the ephemeral
\* pair generated (or rotated) for that connection: running
\* setupSecureDataConnection for a second connection in the same component
\* does not change the key the first connection's data handler uses.
\* the verifications the step starts at p
StartedVerifications(p) ==
  {u \in BagToSet(tasks'[p]) :
     u.kind = "verify" /\ CopiesIn(u, tasks'[p]) > CopiesIn(u, tasks[p])}
C26_KeyOfOwnConnection ==
  [][\A p \in Peers : \A u \in StartedVerifications(p) :
       \A d \in Conns \ {u.conn} : u.eph # ephKeys[d][p]]_vars

\* C27: securityContext is always either null or a record with isVerified =
\* true whose safetyFingerprint and remoteIdentityFingerprint are those of one
\* and the same successful verifyAndDeriveSession result; isVerified is never
\* true without a successful verification before it.
NullOrVerified(ctx) == ctx = NullContext \/ (~ctx.isNull /\ ctx.isVerified)
C27_ContextFromOneResult ==
  [][\A p \in Peers :
       /\ NullOrVerified(securityContext[p])
       /\ NullOrVerified(securityContext'[p])
       /\ securityContext'[p] # securityContext[p] =>
            \/ securityContext'[p] = NullContext
            \/ /\ securityContext[p].isVerified
               /\ securityContext'[p] =
                    [securityContext[p] EXCEPT
                       !.lastRotation = securityContext'[p].lastRotation]
            \/ \E t \in TasksOf(p) :
                 LET result == verifyAndDeriveSession(IdentityOf(p), t.eph, t.msg) IN
                 /\ t.kind = "verify" /\ Resumed(p, t)
                 /\ result.ok
                 /\ securityContext'[p].isVerified
                 /\ securityContext'[p].safetyFingerprint = result.sessionFingerprint
                 /\ securityContext'[p].remoteIdentityFingerprint =
                      result.remoteIdentityFingerprint]_vars
C27_Witness ==
  /\ securityContext["A"].isVerified
  /\ securityContext["A"].safetyFingerprint = SafetyNumber(2, 1, {<<"A", 2>>, <<"B", 2>>})
  /\ securityContext["A"].remoteIdentityFingerprint = 1
  /\ securityContext["B"] = NullContext
  /\ \E t \in TasksOf("B") : t.kind = "ticksign"

\* C28: a ROTATION is sent only by a peer whose status is 'connected', whose
\* securityContext.isVerified is true and whose data connection was open when
\* the tick started; a peer that has not verified the remote never sends one.
SendsRotation(p) ==
  \E c \in Conns : \E i \in 1..Len(SentOn(p, c)) : IsRotation(SentOn(p, c)[i])
\* the rotation ticks that pass the open-check in this step
StartedTicks(p) ==
  {u \in BagToSet(tasks'[p]) :
     u.kind = "tickgen" /\ CopiesIn(u, tasks'[p]) > CopiesIn(u, tasks[p])}
C28_RotationOnlyWhenVerified ==
  [][\A p \in Peers :
       /\ SendsRotation(p) => status[p] = "connected" /\ Verified(p)
       /\ \A u \in StartedTicks(p) :
            /\ status[p] = "connected" /\ Verified(p)
            /\ connState[u.conn][p] = "open"]_vars
\* C28, the part about the start of a tick alone
C28_TickStartChecked ==
  [][\A p \in Peers : \A u \in StartedTicks(p) :
            /\ status[p] = "connected" /\ Verified(p)
            /\ connState[u.conn][p] = "open"]_vars

\* C29: a rotation tick that finds the data connection not open is a no-op:
\* it generates no key, leaves ephemeralKeysRef and securityContext as they
\* are, sends nothing and queues nothing.
\* the timer for c is running at p and no earlier tick is still in progress
TickDue(p, c) ==
  /\ c \in activeTimers[p]
  /\ \A t \in TasksOf(p) : t.kind \notin {"tickgen", "ticksign"}
C29_SkippedTickIsNoOp ==
  \A p \in Peers : \A c \in Conns :
    (TickDue(p, c) /\ connState[c][p] # "open")
      => /\ ENABLED intervalCallback(p, c)
         /\ ~ENABLED <<intervalCallback(p, c)>>_vars
C29_Witness ==
  /\ TickDue("B", 1) /\ connState[1]["B"] = "closed"
  /\ Verified("B") /\ status["B"] = "connected"
  /\ ephemeralKeysRef["B"] = <<"B", 2>>

\* C30: when a data connection opens, the local peer sends exactly one INIT,
\* carrying the public half of the ephemeral pair setupSecureDataConnection
\* generated for that connection, followed by one STATUS; it sends neither if
\* the connection is no longer open when the signed payload is ready.
IsInit(m) == m.type = "SECURE_HANDSHAKE_INIT"
\* the open handlers the step starts at p
StartedOpens(p) ==
  {u \in BagToSet(tasks'[p]) :
     u.kind = "open" /\ CopiesIn(u, tasks'[p]) > CopiesIn(u, tasks[p])}
AllHandled ==
  /\ ~HandshakeInFlight
  /\ \A p \in Peers : tasks[p] = EmptyBag /\ connState[1][p] = "open"
C31_LatestKeyWins ==
  \A p \in Peers :
    (AllHandled /\ Verified(p))
      => SessionRemoteEph(p) = {ephemeralKeysRef[Other(p)]}

\* C32: each handshake message is consumed once by the receiver: when the
\* same INIT, RESPONSE or ROTATION is delivered a second time, the second
\* copy neither replaces the SecurityContext nor triggers another RESPONSE.
\* m is a second copy: p's present context came from a message of the same
\* type, signer and ephemeral key on the same connection
SecondCopy(p, t) ==
  /\ Verified(p)
  /\ t.conn = ctxConn[p]
  /\ t.msg.type = ctxFrom[p].type
  /\ Authentic(t.msg)
  /\ ImportKey(t.msg.identityPublicKey) = IdentityOf(Other(p))
  /\ ImportKey(t.msg.ephemeralPublicKey) \in SessionRemoteEph(p)
C32_ConsumedOnce ==
  [][\A p \in Peers : \A t \in TasksOf(p) :
       (t.kind = "verify" /\ SecondCopy(p, t) /\ Resumed(p, t))
         => /\ securityContext'[p] = securityContext[p]
            /\ StartedReplies(p) = {}]_vars

\* C33: a peer that opened a connection and sent its INIT but never receives
\* a valid handshake message stays unverified with the connection still open,
\* however much time passes: the protocol takes no transition to verified,
\* rejected or closed by itself, because there is no handshake timeout.
\* no handshake message has reached p's data handler so far
NothingReceived(p) ==
  /\ ctxFrom[p].type = "NONE"
  /\ rejected[p] = NoMsg
  /\ \A t \in TasksOf(p) : t.kind \notin {"verify", "resp"}
\* p's open handler has run to its end
InitSent(p) ==
  /\ ephKeys[1][p] # NoKey
  /\ connState[1][p] # "created"
  /\ \A t \in TasksOf(p) : t.kind # "open"
C33_NoHandshakeTimeout ==
  \A p \in Peers :
    (InitSent(p) /\ NothingReceived(p))
      => /\ securityContext[p] = NullContext
         /\ error[p] = ""
         /\ connState[1][p] = "open"
C33_Witness ==
  /\ \A p \in Peers : InitSent(p) /\ tasks[p] = EmptyBag
  /\ NothingReceived("A")
  /\ net[1]["A"] = <<StatusMsg>>
  /\ connState[1]["A"] = "open" /\ securityContext["A"] = NullContext
  /\ now = MaxClock

\* C34: once a connection is verified, remoteIdentityFingerprint keeps its
\* value across every later successfully processed RESPONSE or ROTATION on
\* that connection: a validly self-signed handshake message from a different
\* long-term identity is not adopted into the SecurityContext. Stated for a
\* context that holds the identity of the peer that was dialled.
C34_RemoteIdentityPinned ==
  [][\A p \in Peers : \A t \in TasksOf(p) :
       (/\ t.kind = "verify"
        /\ IsResponse(t.msg) \/ IsRotation(t.msg)
        /\ Verified(p) /\ ctxConn[p] = t.conn
        /\ securityContext[p].remoteIdentityFingerprint
             = computeKeyFingerprint(IdentityOf(Other(p)))
        /\ verifyAndDeriveSession(IdentityOf(p), t.eph, t.msg).ok
        /\ Resumed(p, t))
       => securityContext'[p].remoteIdentityFingerprint
            = securityContext[p].remoteIdentityFingerprint]_vars

\* C35: a local rotation tick changes the sender's SecurityContext only in
\* lastRotation, which becomes the time of the send: isVerified,
\* safetyFingerprint and remoteIdentityFingerprint are left unchanged, a null
\* securityContext stays null, and the steps of the tick before the send (the
\* interval callback and the resumption with the new keys) leave the context
\* alone.
TickSteps(p) ==
  {t \in TasksOf(p) : t.kind \in {"tickgen", "ticksign"} /\ Resumed(p, t)}
C35_TickOnlyRestamps ==
  [][\A p \in Peers :
       /\ StartedTicks(p) # {} => securityContext'[p] = securityContext[p]
       /\ \A t \in TickSteps(p) :
            /\ t.kind = "tickgen" => securityContext'[p] = securityContext[p]
            /\ t.kind = "ticksign" /\ securityContext[p].isNull =>
                 securityContext'[p] = NullContext
            /\ t.kind = "ticksign" /\ ~securityContext[p].isNull =>
                 /\ ~securityContext'[p].isNull
                 /\ securityContext'[p].isVerified = securityContext[p].isVerified
                 /\ securityContext'[p].safetyFingerprint
                      = securityContext[p].safetyFingerprint
                 /\ securityContext'[p].remoteIdentityFingerprint
                      = securityContext[p].remoteIdentityFingerprint
                 /\ securityContext'[p].lastRotation = now]_vars
\* both ticks have run to their end at time 1: the caller's context, derived
\* with its first key, is still verified and carries that time; the callee
\* hung up while its tick was under way, so that its send found a null context
C35_Witness ==
  /\ now = 1
  /\ rotCount = MaxRot
  /\ \A p \in Peers : tasks[p] = EmptyBag /\ ephemeralKeysRef[p] = <<p, 2>>
  /\ securityContext[Caller].isVerified
  /\ securityContext[Caller].lastRotation = 1
  /\ ctxFrom[Caller].eph = <<Caller, 1>>
  /\ securityContext[Callee] = NullContext

\* C36: the result of verifyAndDeriveSession depends only on the local
\* identity, the local ephemeral key and the payload's identityPublicKey,
\* ephemeralPublicKey and signature: two payloads that differ only in type or
\* timestamp yield the same result, so a validly signed message still
\* verifies after its type or timestamp has been changed.
C36_TypeAndTimestampIgnored ==
  fnArgs # NoArgs /\ Len(fnArgs) = 5 /\ fnResult # <<>> =>
    fnResult[1] = fnResult[2]
\* a validly signed INIT verifies, and verifies to the same result as a
\* ROTATION with another timestamp
C36_Witness ==
  /\ Len(fnArgs) = 5 /\ fnResult # <<>>
  /\ fnArgs[3].type = "SECURE_HANDSHAKE_INIT"
  /\ fnArgs[4] = "SECURE_KEY_ROTATION"
  /\ fnArgs[3].timestamp # fnArgs[5]
  /\ fnResult[1].ok /\ fnResult[2].ok
  /\ fnResult[1].remoteIdentityFingerprint = computeKeyFingerprint("IA")


\* C37: when two handshake messages arrive on one connection before the
\* first has finished verifying, their effects on securityContext are applied
\* in arrival order, so the final SecurityContext is the one derived from the
\* message received last. A handler captures ephemeralKeysRef.current when
\* its message arrives and the component's pairs are numbered as they are
\* generated, so a message verified against an older local pair arrived
\* before a message verified against a newer one: the verification that
\* replaces a context never belongs to a message that arrived before the
\* message the context was derived from.
ArrivedBefore(t, p) == t.eph[1] = p /\ ctxFrom[p].eph[1] = p /\ t.eph[2] < ctxFrom[p].eph[2]
C37_AppliedInArrivalOrder ==
  [][\A p \in Peers : \A t \in TasksOf(p) :
       (/\ t.kind = "verify"
        /\ Verified(p) /\ ctxConn[p] = t.conn
        /\ verifyAndDeriveSession(IdentityOf(p), t.eph, t.msg).ok
        /\ Resumed(p, t))
       => ~ArrivedBefore(t, p)]_vars


\* C38: after any interleaving of getOrCreateIdentity calls, the public-key
\* and private-key storage entries are either both absent or hold the two
\* halves of one and the same generated key pair; no reachable state stores
\* the public key of one generation together with the private key of another.
HalvesOfOnePair(store) ==
  \E n \in 1..Len(IdentityKeys) :
    /\ store[STORAGE_KEY_PUB] = JsonStringify(JwkOf("public", IdentityKeys[n]))
    /\ store[STORAGE_KEY_PRIV] = JsonStringify(JwkOf("private", IdentityKeys[n]))
BothAbsent(store) == \A n \in StorageKeys : store[n] = NoEntry
C39_OneRotationTimer ==
  \A p \in Peers :
    /\ Cardinality(activeTimers[p]) <= 1
    /\ activeTimers[p] \subseteq {rotationIntervalRef[p]}
\* after hanging up and calling again both components run the timer of the
\* second connection, the one their ref stores; then the caller is unmounted
\* and its timer is cleared while the callee's is still running
C39_Witness ==
  /\ status[Caller] = "unmounted"
  /\ rotationIntervalRef[Caller] = 2 /\ activeTimers[Caller] = {}
  /\ rotationIntervalRef[Callee] = 2 /\ activeTimers[Callee] = {2}


\* ---------------------------------------------------------- specifications
\* one connection, lossless in-order delivery, no rotation, nobody hangs up
NextHandshake ==
  \/ initiateCall(Caller, 1)
  \/ onConnection(Callee)
  \/ onCall(Callee)
  \/ \E p \in Peers : setupResume(p)
  \/ \E p \in Peers : onOpen(p)
  \/ \E p \in Peers : openResume(p)
  \/ \E p \in Peers : onData(p)
  \/ \E p \in Peers : dataResume(p)
  \/ \E p \in Peers : sendResponse(p)

SpecHandshake == Init /\ [][NextHandshake]_vars

\* one connection over its whole life: rotation and hanging up
Next ==
  \/ NextHandshake
  \/ \E p \in Peers : rotationTick(p)
  \/ \E p \in Peers : rotationResume(p)
  \/ \E p \in Peers : hangUp(p)
  \/ \E p \in Peers : onCallClose(p)
  \/ \E p \in Peers : remoteClose(p)

Spec == Init /\ [][Next]_vars

\* hanging up and calling again, without rotation; the user calls again only
\* after the earlier connection has settled: it is closed on both sides and
\* no continuation of its callbacks is still suspended
Settled ==
  /\ \A p \in Peers : tasks[p] = EmptyBag
  /\ \A c \in Conns, p \in Peers : connState[c][p] \in {"none", "closed"}

NextRedial ==
  \/ Settled /\ initiateCall(Caller, MaxConns)
  \/ onConnection(Callee)
  \/ onCall(Callee)
  \/ \E p \in Peers : setupResume(p)
  \/ \E p \in Peers : onOpen(p)
  \/ \E p \in Peers : openResume(p)
  \/ \E p \in Peers : onData(p)
  \/ \E p \in Peers : dataResume(p)
  \/ \E p \in Peers : sendResponse(p)
  \/ \E p \in Peers : hangUp(p)
  \/ \E p \in Peers : onCallClose(p)
  \/ \E p \in Peers : remoteClose(p)

SpecRedial == Init /\ [][NextRedial]_vars

\* one connection with key rotation, nobody hangs up
NextRotation ==
  \/ NextHandshake
  \/ \E p \in Peers : rotationTick(p)
  \/ \E p \in Peers : rotationResume(p)

SpecRotation == Init /\ [][NextRotation]_vars

\* one connection while the clock advances; the caller's rotation timer fires
NextClock ==
  \/ NextHandshake
  \/ rotationTick(Caller)
  \/ rotationResume(Caller)
  \/ clockTick

SpecClock == Init /\ [][NextClock]_vars

\* the honest peers with a man-in-the-middle on the wire
NextAdv ==
  \/ NextHandshake
  \/ tamper

SpecAdv == Init /\ [][NextAdv]_vars

\* getOrCreateIdentity called again and again, each call after the return
\* of the one before
NoCallRunning == \A j \in Calls : idCall[j].pc \in {"idle", "done"}
NextIdentitySeq ==
  \/ \E i \in Calls : NoCallRunning /\ idStart(i)
  \/ \E i \in Calls : idStep(i)

SpecIdentitySeq == InitIdentity /\ [][NextIdentitySeq]_vars

\* calls of getOrCreateIdentity whose executions may overlap, as those of
\* the init effect run twice
NextIdentity ==
  \/ \E i \in Calls : idStart(i)
  \/ \E i \in Calls : idStep(i)

SpecIdentity == InitIdentity /\ [][NextIdentity]_vars

\* the safety-number derivation on its own
NextSafetyNumber == deriveSafetyNumber
SpecSafetyNumber == InitSafetyNumber /\ [][NextSafetyNumber]_vars

\* formatFingerprint on its own
NextFormat == callFormatFingerprint
SpecFormat == InitFormat /\ [][NextFormat]_vars

\* the undisturbed handshake with every event delivered and every suspended
\* handler resumed; only dialling is left to the user
FairHandlers ==
  /\ WF_vars(onConnection(Callee))
  /\ WF_vars(onCall(Callee))
  /\ \A p \in Peers :
       /\ WF_vars(setupResume(p))
       /\ WF_vars(onOpen(p))
       /\ WF_vars(openResume(p))
       /\ WF_vars(onData(p))
       /\ WF_vars(dataResume(p))
       /\ WF_vars(sendResponse(p))

SpecHandshakeFair == Init /\ [][NextHandshake]_vars /\ FairHandlers

\* the caller hangs up and dials again while the callee's side of the earlier
\* connection is still open
NextOverlap ==
  \/ initiateCall(Caller, MaxConns)
  \/ onConnection(Callee)
  \/ \E p \in Peers : setupResume(p)
  \/ \E p \in Peers : onOpen(p)
  \/ \E p \in Peers : openResume(p)
  \/ \E p \in Peers : onData(p)
  \/ \E p \in Peers : dataResume(p)
  \/ \E p \in Peers : sendResponse(p)
  \/ hangUp(Caller)

SpecOverlap == Init /\ [][NextOverlap]_vars

\* one connection from dialling to hanging up, without key rotation
NextCall ==
  \/ NextHandshake
  \/ \E p \in Peers : hangUp(p)
  \/ \E p \in Peers : onCallClose(p)
  \/ \E p \in Peers : remoteClose(p)

SpecCall == Init /\ [][NextCall]_vars

\* one connection with key rotation in which every handler runs to its end
\* before the next event is delivered
NoHandlerRunning == \A p \in Peers : tasks[p] = EmptyBag
NextSequential ==
  \/ initiateCall(Caller, 1)
  \/ NoHandlerRunning /\ onConnection(Callee)
  \/ onCall(Callee)
  \/ \E p \in Peers : setupResume(p)
  \/ \E p \in Peers : NoHandlerRunning /\ onOpen(p)
  \/ \E p \in Peers : openResume(p)
  \/ \E p \in Peers : NoHandlerRunning /\ onData(p)
  \/ \E p \in Peers : dataResume(p)
  \/ \E p \in Peers : sendResponse(p)
  \/ \E p \in Peers : NoHandlerRunning /\ rotationTick(p)
  \/ \E p \in Peers : rotationResume(p)

SpecSequential == Init /\ [][NextSequential]_vars

\* the same over a transport that may deliver out of order
NextReorder ==
  \/ NextSequential
  \/ NoHandlerRunning /\ reorder

SpecReorder == Init /\ [][NextReorder]_vars

\* the handshake over a transport that may deliver a message twice
NextReplay ==
  \/ NextHandshake
  \/ \E p \in Peers : replay(p)

SpecReplay == Init /\ [][NextReplay]_vars

\* the handshake over a transport that may lose messages, while time passes
NextLossy ==
  \/ NextHandshake
  \/ lose
  \/ clockTick

SpecLossy == Init /\ [][NextLossy]_vars

\* one connection with key rotation whose handlers run to their end, while
\* the clock advances and either side may hang up at any moment
NextTick ==
  \/ NextSequential
  \/ clockTick
  \/ \E p \in Peers : hangUp(p)
  \/ \E p \in Peers : onCallClose(p)
  \/ \E p \in Peers : remoteClose(p)

SpecTick == Init /\ [][NextTick]_vars

\* verifyAndDeriveSession called on a payload and on its retyped, restamped
\* copy
NextVerify == callVerifyAndDeriveSession
SpecVerify == InitVerify /\ [][NextVerify]_vars

\* overlapping calls on a storage that only getOrCreateIdentity has written
SpecIdentityStored == InitIdentityStored /\ [][NextIdentity]_vars

\* calling, hanging up, calling again once the earlier connection has
\* settled, and unmounting, with every handler run to its end before the next
\* message, connection, hang-up or unmount
NextTimers ==
  \/ Settled /\ initiateCall(Caller, MaxConns)
  \/ NoHandlerRunning /\ Mounted(Callee) /\ onConnection(Callee)
  \/ Mounted(Callee) /\ onCall(Callee)
  \/ \E p \in Peers : setupResume(p)
  \/ \E p \in Peers : NoHandlerRunning /\ onOpen(p)
  \/ \E p \in Peers : openResume(p)
  \/ \E p \in Peers : NoHandlerRunning /\ onData(p)
  \/ \E p \in Peers : dataResume(p)
  \/ \E p \in Peers : sendResponse(p)
  \/ \E p \in Peers : NoHandlerRunning /\ hangUp(p)
  \/ \E p \in Peers : onCallClose(p)
  \/ \E p \in Peers : remoteClose(p)
  \/ \E p \in Peers : NoHandlerRunning /\ unmount(p)

SpecTimers == Init /\ [][NextTimers]_vars
====
